---- MODULE Spec2Model ----
(***************************************************************************)
(* Model of Source/BandstopFilter.cpp (Open Ephys notch filter plugin):    *)
(* the per-stream filter banks (BandstopFilterSettings), the registry      *)
(* `settings`, and the three entry points of BandstopFilter:               *)
(* updateSettings, parameterValueChanged and process.                      *)
(*                                                                         *)
(* Two execution contexts are interleaved statement by statement: the      *)
(* control context (updateSettings, parameter edits) and the streaming     *)
(* context (process).  The source holds no lock, flag or atomic swap       *)
(* between them.  Frequencies are in Hz; the cutoff values drawn are odd   *)
(* integers, so (highCut + lowCut) / 2 is exact in integer arithmetic.     *)
(***************************************************************************)
EXTENDS Integers, Sequences, FiniteSets, TLC

NumStreams == 2
MaxChannels == 2
\* Spec explores behaviours of at most MaxOps control operations
\* (reconciliations, parameter changes) and MaxBlocks calls of process.
MaxOps == 3
MaxBlocks == 1

DefaultHighCut == 61
DefaultLowCut == 59
FilterOrder == 4

Streams == 1..NumStreams
Rates == {30000, 100}
CutValues == {59, 61, 71}
ParamNames == {"high_cut", "low_cut", "Channels", "enable_stream"}

HeapSize == NumStreams * MaxChannels
Locals == 0..(MaxChannels - 1)
Globals == 0..(NumStreams * MaxChannels - 1)

VARIABLES
    streams,    \* getDataStreams(): stream id -> descriptor, or NoStream
    lowCut,     \* (*stream)["low_cut"]
    highCut,    \* (*stream)["high_cut"]
    enabled,    \* (*stream)["enable_stream"]
    channels,   \* (*stream)["Channels"], the selected local channel indices
    settings,   \* StreamSettings<BandstopFilterSettings>: stream id -> bank
    ctl,        \* position of the control context
    proc,       \* position of the streaming context, with what it read
    buffer,     \* AudioBuffer<float>: global channel -> Input or the slot applied
    crashed,    \* the process dereferenced a null pointer
    started     \* control operations and blocks begun so far

vars == <<streams, lowCut, highCut, enabled, channels, settings, ctl, proc,
          buffer, crashed, started>>

----------------------------------------------------------------------------
(* Data *)

NoStream == [n |-> 0, sr |-> 0]
StreamDescs == [n : 1..MaxChannels, sr : Rates]
Present(s) == streams[s] # NoStream
PresentSeq(f) ==
    LET RECURSIVE Build(_)
        Build(i) == IF i > NumStreams THEN <<>>
                    ELSE IF f[i] # NoStream
                         THEN <<i>> \o Build(i + 1)
                         ELSE Build(i + 1)
    IN Build(1)

\* A registry entry; live = FALSE is an identifier the registry does not hold.
NoBank == [live |-> FALSE, sampleRate |-> 0, filters |-> <<>>]
\* new BandstopFilterSettings(): no filters; sampleRate is not read before
\* createFilters stores it (updateFilters on an empty bank runs no iteration).
NewBank == [live |-> TRUE, sampleRate |-> 0, filters |-> <<>>]

Input == <<>>

\* The configuration of a freshly constructed SmoothedFilterDesign: none of
\* the four parameters has been set by this code yet; hist is the delay-line
\* state (0 = as constructed, 1 = has processed samples); age is 0 for an
\* instance constructed since the last reconciliation began, 1 for an older
\* one (addresses are reused, so the address does not tell).
NewFilter(a) == [id |-> a, sr |-> 0, order |-> 0, center |-> 0, bw |-> 0,
                 hist |-> 0, age |-> 0]

\* Addresses of the filter instances currently allocated.
Ids(bank) == {bank.filters[i].id : i \in 1..Len(bank.filters)}
LiveIds(reg) == UNION {Ids(reg[s]) : s \in Streams}
\* The instance each slot of a bank points to.
Slots(bank) == [i \in 1..Len(bank.filters) |-> bank.filters[i].id]
\* An allocation that hands out one and the same instance.
NewAddr_Shared(reg) == 1

\* operator new: an address that holds no live instance (the lowest one).
NewAddr(reg) ==
    CHOOSE a \in 1..HeapSize :
        /\ a \notin LiveIds(reg)
        /\ \A b \in 1..HeapSize : b \notin LiveIds(reg) => a <= b

\* What a filter is configured with, without its identity and history.
Cfg(f) == [sr |-> f.sr, order |-> f.order, center |-> f.center, bw |-> f.bw]
BankCfg(bank) == [live |-> bank.live, sampleRate |-> bank.sampleRate,
                  filters |-> [i \in 1..Len(bank.filters) |-> Cfg(bank.filters[i])]]
RegCfg(reg) == [s \in Streams |-> BankCfg(reg[s])]

\* getGlobalChannelIndex(streamId, localChannelIndex)
GlobalIndex(s, c) == (s - 1) * MaxChannels + c

\* The selected local indices in ascending order.
SortedSeq(S) ==
    LET RECURSIVE Build(_)
        Build(i) == IF i >= MaxChannels THEN <<>>
                    ELSE IF i \in S THEN <<i>> \o Build(i + 1)
                         ELSE Build(i + 1)
    IN Build(0)

\* String::toLowerCase on the parameter names in use.
ToLower(name) == IF name = "Channels" THEN "channels" ELSE name

\* A comparison that matches every name.
equalsIgnoreCase_Any(a, b) == TRUE

\* String::equalsIgnoreCase
equalsIgnoreCase(a, b) == ToLower(a) = ToLower(b)

----------------------------------------------------------------------------
(* BandstopFilterSettings *)

\* setParams that moves the center half-way from the old value to the new.
setParams_HalfWay(f, params) ==
    [f EXCEPT !.sr = params[1], !.order = params[2],
              !.center = (@ + params[3]) \div 2, !.bw = params[4]]

\* setParams that leaves the bandwidth as it was.
setParams_KeepBandwidth(f, params) ==
    [f EXCEPT !.sr = params[1], !.order = params[2], !.center = params[3]]

\* Dsp::Filter::setParams on one instance: the four parameters are replaced,
\* the delay line is kept.
setParams(f, params) ==
    [f EXCEPT !.sr = params[1], !.order = params[2],
              !.center = params[3], !.bw = params[4]]

\* setFilterParameters with the library's default sample rate instead of
\* the one createFilters stored.
setFilterParameters_DefaultRate(bank, lc, hc, channel) ==
    LET params == <<44100, FilterOrder, (hc + lc) \div 2, hc - lc>>
    IN  [bank EXCEPT !.filters[channel + 1] =
            [@ EXCEPT !.sr = params[1], !.order = params[2],
                      !.center = params[3], !.bw = params[4]]]

\* setFilterParameters with the center taken from the difference.
setFilterParameters_BadCenter(bank, lc, hc, channel) ==
    LET params == <<bank.sampleRate, FilterOrder, (hc - lc) \div 2, hc - lc>>
    IN  [bank EXCEPT !.filters[channel + 1] =
            [@ EXCEPT !.sr = params[1], !.order = params[2],
                      !.center = params[3], !.bw = params[4]]]

\* setFilterParameters(lowCut, highCut, channel); channel is 0-based.
setFilterParameters(bank, lc, hc, channel) ==
    LET params == <<bank.sampleRate, FilterOrder, (hc + lc) \div 2, hc - lc>>
    IN  [bank EXCEPT !.filters[channel + 1] = setParams(@, params)]

\* updateFilters(lowCut, highCut) as one call: setFilterParameters on every
\* index below filters.size(), in ascending order.
updateFilters(bank, lc, hc) ==
    LET RECURSIVE Loop(_, _)
        Loop(b, n) == IF n < Len(b.filters)
                      THEN Loop(setFilterParameters(b, lc, hc, n), n + 1)
                      ELSE b
    IN Loop(bank, 0)

\* createFilters, up to the loop: sampleRate = sampleRate_; filters.clear().
createFiltersBegin(bank, sr) == [bank EXCEPT !.sampleRate = sr, !.filters = <<>>]

\* One iteration of the allocation loop: filters.add(new ...).
createFiltersAdd(reg, s) ==
    [reg EXCEPT ![s].filters = Append(@, NewFilter(NewAddr(reg)))]

\* The instances that exist when a reconciliation begins.
MarkOld(reg) ==
    [s \in Streams |->
        [reg[s] EXCEPT !.filters =
            [i \in 1..Len(reg[s].filters) |-> [reg[s].filters[i] EXCEPT !.age = 1]]]]

\* settings.update(getDataStreams()): a bank for every stream that has none,
\* no bank for a stream that is gone.
settingsUpdate(reg, topo) ==
    [s \in Streams |->
        IF topo[s] = NoStream THEN NoBank
        ELSE IF reg[s].live THEN reg[s] ELSE NewBank]

\* A lookup that yields the first entry whatever the identifier.
settingsIndex_First(streamId) == 1

\* settings[streamId]: the registry entry the identifier selects.
settingsIndex(streamId) == streamId

----------------------------------------------------------------------------
(* Control context *)

CtlIdle == [pc |-> "idle", op |-> "none", todo |-> <<>>, s |-> 0, n |-> 0,
            numChannels |-> 0, sr |-> 0, lc |-> 0, hc |-> 0,
            name |-> "", v |-> 0, prev |-> 0, had |-> 0, was |-> <<>>,
            pre |-> <<>>]
ProcIdle == [pc |-> "idle", todo |-> <<>>, s |-> 0, chans |-> <<>>,
             hasBank |-> FALSE, seen |-> {}, off |-> {},
             sel |-> [s \in Streams |-> {}],
             cfgs |-> [s \in Streams |-> {}]]
Silence == [g \in Globals |-> Input]

Init ==
    /\ streams = [s \in Streams |-> NoStream]
    /\ lowCut = [s \in Streams |-> DefaultLowCut]
    /\ highCut = [s \in Streams |-> DefaultHighCut]
    /\ enabled = [s \in Streams |-> TRUE]
    /\ channels = [s \in Streams |-> {}]
    /\ settings = [s \in Streams |-> NoBank]
    /\ ctl = CtlIdle
    /\ proc = ProcIdle
    /\ buffer = Silence
    /\ crashed = FALSE
    /\ started = [ops |-> 0, blocks |-> 0]

\* The cutoffs and the banks as they are when an operation begins: what the
\* operation's result is compared with.
Snapshot == [low |-> lowCut, high |-> highCut, cfg |-> RegCfg(settings),
             ids |-> [s \in Streams |-> Ids(settings[s])],
             slots |-> [s \in Streams |-> Slots(settings[s])]]

\* MaskChannelsParameter follows the stream's channel count: indices that no
\* longer exist leave the selection, channels that appear are selected.
maskSetChannelCount(mask, old, new) ==
    (mask \cap 0..(new - 1)) \cup (old..(new - 1))

\* updateSettings without the call of settings.update.
UpdateSettings_NoRegistryUpdate(topo) ==
    /\ ~crashed /\ ctl.pc = "idle"
    /\ streams' = topo
    /\ channels' = [s \in Streams |-> maskSetChannelCount(channels[s],
                                           streams[s].n, topo[s].n)]
    /\ settings' = MarkOld(settings)
    /\ ctl' = [CtlIdle EXCEPT !.pc = "reconcile", !.op = "updateSettings",
                              !.todo = PresentSeq(topo),
                              !.was = [s \in Streams |->
                                  [live |-> settings[s].live,
                                   n |-> Len(settings[s].filters)]]]
    /\ UNCHANGED <<lowCut, highCut, enabled, proc, buffer, crashed>>

\* The signal chain changed upstream and the host calls updateSettings():
\* settings.update(getDataStreams()), then the loop over the streams.
UpdateSettings(topo) ==
    /\ ~crashed /\ ctl.pc = "idle"
    /\ streams' = topo
    /\ channels' = [s \in Streams |-> maskSetChannelCount(channels[s],
                                           streams[s].n, topo[s].n)]
    /\ settings' = settingsUpdate(MarkOld(settings), topo)
    /\ ctl' = [CtlIdle EXCEPT !.pc = "reconcile", !.op = "updateSettings",
                              !.todo = PresentSeq(topo),
                              !.was = [s \in Streams |->
                                  [live |-> settings[s].live,
                                   n |-> Len(settings[s].filters)]]]
    /\ UNCHANGED <<lowCut, highCut, enabled, proc, buffer, crashed>>

\* updateSettings as a diff: a bank that already holds as many filters as
\* the stream has channels is left as it is.
UpdateSettingsNext_Diff ==
    /\ ~crashed /\ ctl.pc = "reconcile"
    /\ IF ctl.todo = <<>>
       THEN /\ ctl' = CtlIdle
            /\ UNCHANGED settings
       ELSE LET s == Head(ctl.todo) IN
            IF Len(settings[s].filters) = streams[s].n
            THEN /\ ctl' = [ctl EXCEPT !.todo = Tail(@)]
                 /\ UNCHANGED settings
            ELSE /\ settings' = [settings EXCEPT
                        ![s] = [@ EXCEPT !.sampleRate = streams[s].sr,
                                         !.filters = <<>>]]
                 /\ ctl' = [ctl EXCEPT !.pc = "create", !.s = s, !.n = 0,
                                       !.had = Len(settings[s].filters),
                                       !.numChannels = streams[s].n,
                                       !.sr = streams[s].sr,
                                       !.lc = lowCut[s], !.hc = highCut[s]]
    /\ UNCHANGED <<streams, lowCut, highCut, enabled, channels, proc, buffer,
                   crashed>>

\* for (auto stream : getDataStreams()): the call of createFilters with the
\* stream's channel count, sample rate and cutoffs, through filters.clear().
UpdateSettingsNext ==
    /\ ~crashed /\ ctl.pc = "reconcile"
    /\ IF ctl.todo = <<>>
       THEN /\ ctl' = CtlIdle
            /\ UNCHANGED settings
       ELSE LET s == Head(ctl.todo) IN
            /\ settings' = [settings EXCEPT
                   ![settingsIndex(s)] = createFiltersBegin(@, streams[s].sr)]
            /\ ctl' = [ctl EXCEPT !.pc = "create", !.s = s, !.n = 0,
                                  !.had = Len(settings[s].filters),
                                  !.numChannels = streams[s].n,
                                  !.sr = streams[s].sr,
                                  !.lc = lowCut[s], !.hc = highCut[s]]
    /\ UNCHANGED <<streams, lowCut, highCut, enabled, channels, proc, buffer,
                   crashed>>

\* createFilters: for (n = 0; n < numChannels; ++n) filters.add(new ...),
\* then the call of updateFilters(lowCut, highCut).
CreateFiltersStep ==
    /\ ~crashed /\ ctl.pc = "create"
    /\ IF ctl.n < ctl.numChannels
       THEN /\ settings' = createFiltersAdd(settings, settingsIndex(ctl.s))
            /\ ctl' = [ctl EXCEPT !.n = @ + 1]
       ELSE /\ ctl' = [ctl EXCEPT !.pc = "update", !.n = 0]
            /\ UNCHANGED settings
    /\ UNCHANGED <<streams, lowCut, highCut, enabled, channels, proc, buffer,
                   crashed>>

\* updateFilters: for (n = 0; n < filters.size(); n++)
\* setFilterParameters(lowCut, highCut, n); then the return to the caller.
UpdateFiltersStep ==
    /\ ~crashed /\ ctl.pc = "update"
    /\ IF ctl.n < Len(settings[settingsIndex(ctl.s)].filters)
       THEN /\ settings' = [settings EXCEPT
                   ![settingsIndex(ctl.s)] =
                       setFilterParameters(@, ctl.lc, ctl.hc, ctl.n)]
            /\ ctl' = [ctl EXCEPT !.n = @ + 1]
       ELSE /\ ctl' = IF ctl.op = "updateSettings"
                      THEN [CtlIdle EXCEPT !.pc = "reconcile",
                                           !.op = "updateSettings",
                                           !.todo = Tail(ctl.todo),
                                           !.was = ctl.was]
                      ELSE CtlIdle
            /\ UNCHANGED settings
    /\ UNCHANGED <<streams, lowCut, highCut, enabled, channels, proc, buffer,
                   crashed>>

\* A restore that leaves the rejected value in place.
restorePreviousValue_Keep(current, previous) == current

\* Parameter::restorePreviousValue(): the value before the last change.
restorePreviousValue(current, previous) == previous

\* The host stores a new value in a stream parameter (Parameter::updateValue
\* keeps the old one as the previous value); parameterValueChanged follows.
ChangeValue(s, name, v) ==
    /\ ~crashed /\ ctl.pc = "idle"
    /\ Present(s)
    /\ ctl' = [CtlIdle EXCEPT !.pc = "changed", !.op = "edit", !.s = s,
                  !.name = name, !.v = v, !.pre = Snapshot,
                  !.prev = CASE name = "low_cut" -> lowCut[s]
                             [] name = "high_cut" -> highCut[s]
                             [] name = "Channels" -> channels[s]
                             [] OTHER -> enabled[s]]
    /\ CASE name = "low_cut" ->
              /\ v \in CutValues
              /\ lowCut' = [lowCut EXCEPT ![s] = v]
              /\ UNCHANGED <<highCut, channels, enabled>>
         [] name = "high_cut" ->
              /\ v \in CutValues
              /\ highCut' = [highCut EXCEPT ![s] = v]
              /\ UNCHANGED <<lowCut, channels, enabled>>
         [] name = "Channels" ->
              /\ v \in SUBSET (0..(streams[s].n - 1))
              /\ channels' = [channels EXCEPT ![s] = v]
              /\ UNCHANGED <<lowCut, highCut, enabled>>
         [] OTHER ->
              /\ v \in BOOLEAN
              /\ enabled' = [enabled EXCEPT ![s] = v]
              /\ UNCHANGED <<lowCut, highCut, channels>>
    /\ UNCHANGED <<streams, settings, proc, buffer, crashed>>

\* The tests with a strict comparison: equal cutoffs pass.
lowCutInvalid_Strict(lc, hc) == lc > hc
highCutInvalid_Strict(lc, hc) == hc < lc

\* The two validity tests of parameterValueChanged.
lowCutInvalid(lc, hc) == lc >= hc
highCutInvalid(lc, hc) == hc <= lc

\* parameterValueChanged(param), up to the early return or the call of
\* updateFilters.
ParameterValueChanged ==
    /\ ~crashed /\ ctl.pc = "changed"
    /\ LET currentStream == ctl.s IN
       IF equalsIgnoreCase(ctl.name, "low_cut")
       THEN IF lowCutInvalid(lowCut[currentStream], highCut[currentStream])
            THEN /\ lowCut' = [lowCut EXCEPT ![currentStream] =
                                  restorePreviousValue(@, ctl.prev)]
                 /\ ctl' = [ctl EXCEPT !.pc = "rejected"]
                 /\ UNCHANGED highCut
            ELSE /\ ctl' = [ctl EXCEPT !.pc = "update", !.n = 0,
                               !.lc = lowCut[currentStream],
                               !.hc = highCut[currentStream]]
                 /\ UNCHANGED <<lowCut, highCut>>
       ELSE IF equalsIgnoreCase(ctl.name, "high_cut")
       THEN IF highCutInvalid(lowCut[currentStream], highCut[currentStream])
            THEN /\ highCut' = [highCut EXCEPT ![currentStream] =
                                   restorePreviousValue(@, ctl.prev)]
                 /\ ctl' = [ctl EXCEPT !.pc = "rejected"]
                 /\ UNCHANGED lowCut
            ELSE /\ ctl' = [ctl EXCEPT !.pc = "update", !.n = 0,
                               !.lc = lowCut[currentStream],
                               !.hc = highCut[currentStream]]
                 /\ UNCHANGED <<lowCut, highCut>>
       ELSE /\ ctl' = [ctl EXCEPT !.pc = "ignored"]
            /\ UNCHANGED <<lowCut, highCut>>
    /\ UNCHANGED <<streams, enabled, channels, settings, proc, buffer, crashed>>

\* parameterValueChanged returns without having called updateFilters.
ParameterValueChangedReturn ==
    /\ ~crashed /\ ctl.pc \in {"rejected", "ignored"}
    /\ ctl' = CtlIdle
    /\ UNCHANGED <<streams, lowCut, highCut, enabled, channels, settings, proc,
                   buffer, crashed>>

----------------------------------------------------------------------------
(* Streaming context *)

\* The host hands process() the next block: for (auto stream :
\* getDataStreams()) iterates over the streams as they are now.
ProcessBegin ==
    /\ ~crashed /\ proc.pc = "idle"
    /\ proc' = [ProcIdle EXCEPT !.pc = "stream", !.todo = PresentSeq(streams)]
    /\ buffer' = Silence
    /\ UNCHANGED <<streams, lowCut, highCut, enabled, channels, settings, ctl,
                   crashed>>

\* process without the enable_stream test, and iterating over every channel
\* of the stream instead of the selection.
streamEnabled_Always(s) == TRUE
selectedChannels_All(s) == SortedSeq(0..(streams[s].n - 1))

\* (*stream)["enable_stream"] and *((*stream)["Channels"].getArray()).
streamEnabled(s) == enabled[s]
selectedChannels(s) == SortedSeq(channels[s])

\* What the block is compared with: the streams whose flag was false when
\* process came to them (off), the selection read for the others (sel), and
\* the configurations of the filters applied so far (cfgs).
FlagOff(s) == IF enabled[s] THEN {} ELSE {s}

\* One iteration of the loop over the streams: the enable_stream test, the
\* lookup settings[streamId] and the read of the channel selection.
ProcessStream ==
    /\ ~crashed /\ proc.pc = "stream"
    /\ IF proc.todo = <<>>
       THEN proc' = [proc EXCEPT !.pc = "done"]
       ELSE LET s == Head(proc.todo) IN
            IF streamEnabled(s)
            THEN proc' = [proc EXCEPT !.pc = "chan", !.s = s,
                             !.hasBank = settings[settingsIndex(s)].live,
                             !.chans = selectedChannels(s),
                             !.seen = @ \cup {s},
                             !.off = @ \cup FlagOff(s),
                             !.sel[s] = channels[s]]
            ELSE proc' = [proc EXCEPT !.todo = Tail(@), !.seen = @ \cup {s},
                                      !.off = @ \cup FlagOff(s)]
    /\ UNCHANGED <<streams, lowCut, highCut, enabled, channels, settings, ctl,
                   buffer, crashed>>

\* filters[localChannelIndex] yields a null pointer when the index is not
\* below filters.size() (juce::OwnedArray), and settings[streamId] when the
\* registry holds no bank for the stream; a bank removed since the lookup
\* leaves streamSettings dangling.
NullDeref(s, c) ==
    \/ ~proc.hasBank
    \/ ~settings[settingsIndex(s)].live
    \/ c >= Len(settings[settingsIndex(s)].filters)

\* Dsp::Filter::process(numSamples, &ptr) on one instance: the delay line
\* advances.
filterProcess(f) == [f EXCEPT !.hist = 1]

\* One iteration of the loop over the selected channels: the filter of the
\* local index is applied in place to the channel of the global index.
ProcessChannel ==
    /\ ~crashed /\ proc.pc = "chan"
    /\ IF proc.chans = <<>>
       THEN /\ proc' = [proc EXCEPT !.pc = "stream", !.todo = Tail(@)]
            /\ UNCHANGED <<settings, buffer, crashed>>
       ELSE LET s == proc.s
                localChannelIndex == Head(proc.chans)
                globalChannelIndex == GlobalIndex(s, localChannelIndex)
            IN  IF NullDeref(s, localChannelIndex)
                THEN /\ crashed' = TRUE
                     /\ UNCHANGED <<proc, settings, buffer>>
                ELSE /\ settings' = [settings EXCEPT
                            ![settingsIndex(s)].filters[localChannelIndex + 1] =
                                filterProcess(@)]
                     /\ buffer' = [buffer EXCEPT ![globalChannelIndex] =
                                      <<s, localChannelIndex>>]
                     /\ proc' = [proc EXCEPT !.chans = Tail(@),
                            !.cfgs[s] = @ \cup
                               {Cfg(settings[settingsIndex(s)]
                                        .filters[localChannelIndex + 1])}]
                     /\ UNCHANGED crashed
    /\ UNCHANGED <<streams, lowCut, highCut, enabled, channels, ctl>>

\* process() returns and the host takes the block.
ProcessReturn ==
    /\ ~crashed /\ proc.pc = "done"
    /\ proc' = ProcIdle
    /\ buffer' = Silence
    /\ UNCHANGED <<streams, lowCut, highCut, enabled, channels, settings, ctl,
                   crashed>>

----------------------------------------------------------------------------

Topologies == [Streams -> StreamDescs \cup {NoStream}]

\* The control context: a reconciliation or a parameter change begins, or
\* the operation in progress takes its next step.
ControlBegin ==
    \/ \E topo \in Topologies : UpdateSettings(topo)
    \/ \E s \in Streams, v \in CutValues : ChangeValue(s, "low_cut", v)
    \/ \E s \in Streams, v \in CutValues : ChangeValue(s, "high_cut", v)
    \/ \E s \in Streams, v \in SUBSET Locals : ChangeValue(s, "Channels", v)
    \/ \E s \in Streams, v \in BOOLEAN : ChangeValue(s, "enable_stream", v)

ControlStep ==
    \/ UpdateSettingsNext
    \/ CreateFiltersStep
    \/ UpdateFiltersStep
    \/ ParameterValueChanged
    \/ ParameterValueChangedReturn

ProcessStep ==
    \/ ProcessStream
    \/ ProcessChannel
    \/ ProcessReturn

\* Both contexts, interleaved step by step.
Next ==
    \/ /\ started.ops < MaxOps
       /\ ControlBegin
       /\ started' = [started EXCEPT !.ops = @ + 1]
    \/ /\ started.blocks < MaxBlocks
       /\ ProcessBegin
       /\ started' = [started EXCEPT !.blocks = @ + 1]
    \/ (ControlStep /\ UNCHANGED started)
    \/ (ProcessStep /\ UNCHANGED started)

Spec == Init /\ [][Next]_vars

\* The control context alone, for any number of operations.
NextCtl ==
    \/ (ControlBegin /\ UNCHANGED started)
    \/ (ControlStep /\ UNCHANGED started)

SpecCtl == Init /\ [][NextCtl]_vars

----------------------------------------------------------------------------
(* Properties *)

Bank(s) == settings[settingsIndex(s)]
Filters(s) == {Bank(s).filters[i] : i \in 1..Len(Bank(s).filters)}

\* createFilters has run its last statement and is about to return.
AtCreateFiltersReturn ==
    /\ ctl.op = "updateSettings" /\ ctl.pc = "update"
    /\ ctl.n >= Len(Bank(ctl.s).filters)

\* An accepted edit's updateFilters has run its last iteration:
\* parameterValueChanged is about to return.
AtAcceptedReturn ==
    /\ ctl.op = "edit" /\ ctl.pc = "update"
    /\ ctl.n >= Len(Bank(ctl.s).filters)

\* parameterValueChanged is at the return that follows restorePreviousValue.
AtRejectedReturn == ctl.op = "edit" /\ ctl.pc = "rejected"

\* The edit in progress proposes a pair with lowCut >= highCut.
ProposesInvalidPair ==
    \/ ctl.name = "low_cut" /\ ctl.v >= ctl.pre.high[ctl.s]
    \/ ctl.name = "high_cut" /\ ctl.v <= ctl.pre.low[ctl.s]
CutoffEditDecided ==
    /\ ctl.op = "edit" /\ ctl.name \in {"low_cut", "high_cut"}
    /\ ctl.pc # "changed"

\* C1: when createFilters(n, sr, lowCut, highCut) returns, with n > 0 and
\* lowCut < highCut, the bank holds exactly n filters, whatever it held
\* before, each configured with sample rate sr, order 4, center
\* (lowCut + highCut) / 2 and bandwidth highCut - lowCut.
C1_CreateFiltersPost ==
    (AtCreateFiltersReturn /\ ctl.numChannels > 0 /\ ctl.lc < ctl.hc) =>
        /\ Len(Bank(ctl.s).filters) = ctl.numChannels
        /\ \A f \in Filters(ctl.s) :
               Cfg(f) = [sr |-> ctl.sr, order |-> 4,
                         center |-> (ctl.lc + ctl.hc) \div 2,
                         bw |-> ctl.hc - ctl.lc]

\* createFilters returns on a bank that held another number of filters
\* before, with cutoffs other than the defaults.
C1_Witness ==
    /\ AtCreateFiltersReturn
    /\ ctl.had = 1 /\ ctl.numChannels = 2 /\ ctl.sr = 30000
    /\ ctl.lc = 61 /\ ctl.hc = 71
    /\ Len(Bank(ctl.s).filters) = 2

\* C2: a cutoff edit that proposes lowCut >= highCut is rejected: when
\* parameterValueChanged returns, the edited field holds the value it had
\* before the edit, the other field is unchanged, and the stream's bank has
\* the configuration it had before the edit.
C2_InvalidEditRejected ==
    (CutoffEditDecided /\ ProposesInvalidPair) =>
        /\ AtRejectedReturn
        /\ lowCut[ctl.s] = ctl.pre.low[ctl.s]
        /\ highCut[ctl.s] = ctl.pre.high[ctl.s]
        /\ BankCfg(Bank(ctl.s)) = ctl.pre.cfg[ctl.s]

\* low_cut = 71 was proposed on a stream whose high_cut is 61 and whose bank
\* holds two filters, and the edit is at its return.
C2_Witness ==
    /\ AtRejectedReturn
    /\ ctl.name = "low_cut" /\ ctl.v = 71 /\ ctl.pre.high[ctl.s] = 61
    /\ Len(Bank(ctl.s).filters) = 2

\* C3: between operations, every stream's pair has lowCut < highCut, and
\* every filter of every bank has a strictly positive bandwidth.
C3_CutoffsOrdered ==
    ctl.pc = "idle" =>
        \A s \in Streams :
            /\ lowCut[s] < highCut[s]
            /\ \A f \in Filters(s) : f.bw > 0

\* Between operations, after accepted edits of both fields and rejected
\* ones could have intervened: a bank of two filters tuned to 61..71.
C3_Witness ==
    /\ ctl.pc = "idle"
    /\ \E s \in Streams :
          /\ lowCut[s] = 61 /\ highCut[s] = 71
          /\ Len(Bank(s).filters) = 2
          /\ \A f \in Filters(s) : f.bw = 10 /\ f.center = 66

\* The bank of stream s is between filters.clear() and the last
\* setFilterParameters of the updateFilters that createFilters ends with.
Rebuilding(s) ==
    /\ ctl.op = "updateSettings" /\ ctl.s = s
    /\ \/ ctl.pc = "create"
       \/ ctl.pc = "update" /\ ctl.n < Len(Bank(s).filters)

\* process is at filters[localChannelIndex] for the next selected channel.
AtFilterRead == proc.pc = "chan" /\ proc.chans # <<>>

\* C4: whenever process reads a stream's bank, the bank exists and holds as
\* many filters as the stream has channels, so the local index is valid.
C4_ProcessReadsValidBank ==
    AtFilterRead =>
        /\ Bank(proc.s).live
        /\ Len(Bank(proc.s).filters) = streams[proc.s].n
        /\ Head(proc.chans) < Len(Bank(proc.s).filters)

\* C5: process never reads a bank that createFilters is rebuilding.
C5_NoReadWhileRebuilding ==
    AtFilterRead => ~Rebuilding(proc.s)

\* C6: within one block, all the filters applied to a stream's channels
\* carry the same configuration.
C6_OneConfigPerBlock ==
    \A s \in Streams : Cardinality(proc.cfgs[s]) <= 1

\* C7: a stream whose enabled flag is false when process comes to it has
\* none of its filters applied and all its channels left as the input,
\* whatever its channel selection.
C7_DisabledStreamUntouched ==
    \A s \in proc.off :
        /\ proc.cfgs[s] = {}
        /\ \A c \in Locals : buffer[GlobalIndex(s, c)] = Input

\* A block is complete in which a disabled stream with two filters and a
\* non-empty selection was skipped and another stream was filtered.
C7_Witness ==
    /\ proc.pc = "done"
    /\ \E s \in proc.off, t \in proc.seen \ proc.off :
          /\ channels[s] # {} /\ Len(Bank(s).filters) = 2
          /\ \E c \in Locals : buffer[GlobalIndex(t, c)] = <<t, c>>

\* C8: the buffer channels written in a block are exactly those of the
\* selected local indices of the enabled streams; an enabled stream's
\* channels outside its selection are left as the input.
C8_OnlySelectedWritten ==
    /\ \A g \in Globals :
          buffer[g] # Input =>
              \E s \in proc.seen \ proc.off :
                  \E c \in proc.sel[s] : g = (s - 1) * MaxChannels + c
    /\ \A s \in proc.seen \ proc.off :
          \A c \in Locals \ proc.sel[s] :
              buffer[(s - 1) * MaxChannels + c] = Input

\* A block is complete in which an enabled stream of two channels had only
\* channel 1 selected: channel 1 is filtered, channel 0 is the input.
C8_Witness ==
    /\ proc.pc = "done"
    /\ \E s \in proc.seen \ proc.off :
          /\ proc.sel[s] = {1} /\ streams[s].n = 2
          /\ buffer[GlobalIndex(s, 1)] = <<s, 1>>
          /\ buffer[GlobalIndex(s, 0)] = Input

\* C9: a cutoff edit on stream A, accepted or rejected, changes no filter
\* configuration, filter count, filter instance or sample rate of another
\* stream's bank, and neither cutoff of another stream.
C9_EditIsolated ==
    (ctl.op = "edit" /\ ctl.name \in {"low_cut", "high_cut"}) =>
        \A b \in Streams \ {ctl.s} :
            /\ BankCfg(settings[b]) = ctl.pre.cfg[b]
            /\ Ids(settings[b]) = ctl.pre.ids[b]
            /\ lowCut[b] = ctl.pre.low[b]
            /\ highCut[b] = ctl.pre.high[b]

\* An accepted high_cut = 71 on one stream is at its return while another
\* stream holds a bank of two filters tuned to the defaults.
C9_Witness ==
    /\ AtAcceptedReturn /\ ctl.name = "high_cut" /\ ctl.v = 71
    /\ Len(settings[ctl.s].filters) > 0
    /\ \E b \in Streams \ {ctl.s} :
          /\ Len(settings[b].filters) = 2
          /\ \A i \in 1..2 : settings[b].filters[i].center = 60

\* C10: a cutoff edit that proposes lowCut < highCut is accepted, and when
\* parameterValueChanged returns the pair is the edited field's new value
\* with the other field unchanged, and every filter of the stream's bank has
\* center (lowCut + highCut) / 2 and bandwidth highCut - lowCut of that pair.
C10_AcceptedEditApplied ==
    (CutoffEditDecided /\ ~ProposesInvalidPair) =>
        /\ ctl.pc = "update"
        /\ lowCut[ctl.s] = IF ctl.name = "low_cut" THEN ctl.v
                           ELSE ctl.pre.low[ctl.s]
        /\ highCut[ctl.s] = IF ctl.name = "high_cut" THEN ctl.v
                            ELSE ctl.pre.high[ctl.s]
        /\ AtAcceptedReturn =>
              \A f \in Filters(ctl.s) :
                  /\ f.center = (lowCut[ctl.s] + highCut[ctl.s]) \div 2
                  /\ f.bw = highCut[ctl.s] - lowCut[ctl.s]

\* An accepted low_cut = 61 on a stream whose high_cut is 71 is at its
\* return, on a bank of two filters.
C10_Witness ==
    /\ AtAcceptedReturn /\ ctl.name = "low_cut" /\ ctl.v = 61
    /\ ctl.pre.low[ctl.s] = 59 /\ highCut[ctl.s] = 71
    /\ Len(Bank(ctl.s).filters) = 2

\* updateSettings has rebuilt the bank of every stream and is about to
\* return.
AtUpdateSettingsReturn ==
    ctl.op = "updateSettings" /\ ctl.pc = "reconcile" /\ ctl.todo = <<>>

\* C11: after every reconciliation the streams that have a bank in the
\* registry are exactly the streams present: a stream that disappeared has
\* no bank left and every newly observed stream has one.
C11_RegistryMatchesStreams ==
    (AtUpdateSettingsReturn \/ ctl.pc = "idle") =>
        \A s \in Streams : settings[s].live <=> Present(s)

\* A reconciliation is at its return in which one stream that had a bank
\* is gone and another stream that had none is present.
C11_Witness ==
    /\ AtUpdateSettingsReturn
    /\ \E s, t \in Streams :
          /\ ctl.was[s].live /\ ~Present(s) /\ ~settings[s].live
          /\ ~ctl.was[t].live /\ Present(t) /\ settings[t].live

\* C12: when updateSettings returns, the bank of every present stream,
\* also of one whose channel count did not change, holds exactly the
\* stream's channel count of instances, all constructed during this
\* reconciliation, with the stream's sample rate and the center and
\* bandwidth of its current cutoffs.
C12_FullRebuild ==
    AtUpdateSettingsReturn =>
        \A s \in Streams :
            Present(s) =>
                /\ Len(Bank(s).filters) = streams[s].n
                /\ Bank(s).sampleRate = streams[s].sr
                /\ \A f \in Filters(s) :
                      /\ f.age = 0 /\ f.hist = 0
                      /\ Cfg(f) = [sr |-> streams[s].sr, order |-> 4,
                                   center |-> (lowCut[s] + highCut[s]) \div 2,
                                   bw |-> highCut[s] - lowCut[s]]

\* A reconciliation is at its return in which one stream went from one
\* channel to two and another kept its two channels.
C12_Witness ==
    /\ AtUpdateSettingsReturn
    /\ \E s, t \in Streams :
          /\ ctl.was[s].n = 1 /\ streams[s].n = 2 /\ Len(Bank(s).filters) = 2
          /\ ctl.was[t].n = 2 /\ streams[t].n = 2 /\ Len(Bank(t).filters) = 2

\* updateFilters has run its last iteration, called by createFilters or by
\* parameterValueChanged.
AtUpdateFiltersReturn ==
    ctl.pc = "update" /\ ctl.n >= Len(Bank(ctl.s).filters)

\* C13: a second updateFilters(lc, hc) right after the first leaves every
\* filter as the first call left it.
C13_UpdateFiltersIdempotent ==
    AtUpdateFiltersReturn =>
        updateFilters(Bank(ctl.s), ctl.lc, ctl.hc) = Bank(ctl.s)

\* updateFilters(59, 71) is at its return on a bank of two filters that
\* were tuned to 59..61 before.
C13_Witness ==
    /\ AtUpdateFiltersReturn /\ ctl.op = "edit"
    /\ ctl.lc = 59 /\ ctl.hc = 71 /\ ctl.pre.high[ctl.s] = 61
    /\ Len(Bank(ctl.s).filters) = 2

\* The precondition of createFilters.
CreateFiltersPrecondition ==
    /\ ctl.numChannels > 0 /\ ctl.sr > 0
    /\ ctl.lc < ctl.hc
    /\ 2 * ctl.hc < ctl.sr

\* C14: createFilters never returns normally from a call that violates its
\* precondition (channel count, sample rate, cutoff order, highCut below
\* sampleRate / 2).
C14_PreconditionSurfaced ==
    AtCreateFiltersReturn => CreateFiltersPrecondition

\* C15: across a cutoff edit no bank changes its number of filters, the
\* instance in any slot or its stored sample rate, and the sample rate
\* applied to the filters is the stored one.
C15_EditKeepsTopology ==
    (ctl.op = "edit" /\ ctl.name \in {"low_cut", "high_cut"}) =>
        /\ \A s \in Streams :
              /\ Slots(settings[s]) = ctl.pre.slots[s]
              /\ settings[s].sampleRate = ctl.pre.cfg[s].sampleRate
              /\ settings[s].live = ctl.pre.cfg[s].live
        /\ AtAcceptedReturn =>
              \A f \in Filters(ctl.s) : f.sr = Bank(ctl.s).sampleRate

\* An accepted edit is at its return on a bank of two filters built for
\* 100 Hz while the other stream's bank is built for 30000 Hz.
C15_Witness ==
    /\ AtAcceptedReturn
    /\ Bank(ctl.s).sampleRate = 100 /\ Len(Bank(ctl.s).filters) = 2
    /\ \E t \in Streams \ {ctl.s} :
          settings[t].sampleRate = 30000 /\ Len(settings[t].filters) = 2

\* All the instances of all the banks, slot by slot.
AllSlots ==
    {p \in Streams \X (1..MaxChannels) : p[2] <= Len(settings[p[1]].filters)}

\* C16: no filter instance is in two slots, and a step of process on local
\* channel c of stream s changes the filter in slot c of s and no other
\* filter of any bank.
C16_ExclusiveOwnership ==
    /\ [](\A p, q \in AllSlots :
            settings[p[1]].filters[p[2]].id = settings[q[1]].filters[q[2]].id
                => p = q)
    /\ [][ (AtFilterRead /\ proc' # proc) =>
              /\ \A t \in Streams :
                    Len(settings'[t].filters) = Len(settings[t].filters)
              /\ \A p \in AllSlots :
                    p # <<proc.s, Head(proc.chans) + 1>> =>
                        settings'[p[1]].filters[p[2]] = settings[p[1]].filters[p[2]]
              /\ settings'[proc.s].filters[Head(proc.chans) + 1].hist = 1 ]_vars

\* process has applied the filter of channel 0 of a stream and is at
\* channel 1, with four instances in two banks.
C16_Witness ==
    /\ AtFilterRead /\ Head(proc.chans) = 1
    /\ Len(Bank(proc.s).filters) = 2
    /\ Bank(proc.s).filters[1].hist = 1 /\ Bank(proc.s).filters[2].hist = 0
    /\ Cardinality(LiveIds(settings)) = 4

\* C17: when a control operation is complete, every filter of every present
\* stream has the center and bandwidth of the stream's current cutoffs.
C17_BankFollowsCutoffs ==
    (\/ ctl.pc = "idle" \/ AtUpdateSettingsReturn
     \/ AtAcceptedReturn \/ AtRejectedReturn) =>
        \A s \in Streams :
            Present(s) =>
                \A f \in Filters(s) :
                    /\ f.center = (lowCut[s] + highCut[s]) \div 2
                    /\ f.bw = highCut[s] - lowCut[s]

\* A rejected high_cut = 59 on a stream tuned to 61..71 is at its return:
\* the field is 71 again and the two filters are tuned to 61..71.
C17_Witness ==
    /\ AtRejectedReturn /\ ctl.name = "high_cut" /\ ctl.v = 59
    /\ lowCut[ctl.s] = 61 /\ highCut[ctl.s] = 71
    /\ Len(Bank(ctl.s).filters) = 2
    /\ \A f \in Filters(ctl.s) : f.center = 66 /\ f.bw = 10

\* C18: a change of a parameter that is neither low_cut nor high_cut calls
\* neither updateFilters nor restorePreviousValue: no bank and no cutoff
\* changes, and the parameter keeps its new value.
C18_OtherParameterIgnored ==
    (ctl.op = "edit" /\ ctl.name \notin {"low_cut", "high_cut"}) =>
        /\ ctl.pc \in {"changed", "ignored"}
        /\ RegCfg(settings) = ctl.pre.cfg
        /\ \A s \in Streams : Slots(settings[s]) = ctl.pre.slots[s]
        /\ lowCut = ctl.pre.low /\ highCut = ctl.pre.high
        /\ ctl.name = "Channels" => channels[ctl.s] = ctl.v
        /\ ctl.name = "enable_stream" => enabled[ctl.s] = ctl.v

\* parameterValueChanged is at its return for a new channel selection on a
\* stream with a bank of two filters.
C18_Witness ==
    /\ ctl.op = "edit" /\ ctl.pc = "ignored" /\ ctl.name = "Channels"
    /\ ctl.v = {1} /\ ctl.prev = {0, 1}
    /\ Len(Bank(ctl.s).filters) = 2

====
